---- MODULE Spec2Model ----
(***************************************************************************)
(* A model of Ziben's shader pipeline: the `#type` source splitter, the    *)
(* Shader program object (compile, lazy link, uniform cache) over a model  *)
(* of the graphics driver, and Renderer's submission protocol.             *)
(*                                                                         *)
(* Strings are sequences of one-character strings.  C++ positions are      *)
(* 0-based; position p of a std::string s is s[p + 1] here.                *)
(***************************************************************************)
EXTENDS Integers, Sequences, FiniteSets, TLC

VARIABLES
    text,       \* the source text handed to Internal::ParseShader
    nPieces,    \* how many pieces text was put together from
    parsed,     \* what ParseShader made of text, or NotParsed
    running,    \* FALSE once a failed assert has ended the process
    shaders,    \* the Shader objects: m_Handle, m_IsLinked, m_UniformLocations
    ctor,       \* the Shader constructor in progress, or Idle
    gl,         \* the driver: its objects by handle, and the program in use
    s_ViewProjectionMatrix,     \* Renderer::s_ViewProjectionMatrix
    linkRequests,   \* per Shader, the glLinkProgram calls it has issued
    linkFailures,   \* per Shader, the link attempts that reported failure
    failedLookups,  \* per Shader, the names the driver has answered with -1
    indexBuffers,   \* the IndexBuffer objects: m_Handle, m_Count, m_Usage
    glBuffers,      \* the driver's buffer objects and the element array binding
    calls,      \* the driver calls of the last operation, in order
    lastOp      \* the last operation and how it ended

parseVars == <<text, nPieces, parsed>>

shaderVars ==
    <<running, shaders, ctor, gl, s_ViewProjectionMatrix, linkRequests,
      linkFailures, failedLookups, calls, lastOp>>

bufferVars == <<indexBuffers, glBuffers>>

vars ==
    <<text, nPieces, parsed, running, shaders, ctor, gl, s_ViewProjectionMatrix,
      linkRequests, linkFailures, failedLookups, indexBuffers, glBuffers, calls,
      lastOp>>

(***************************************************************************)
(* std::string                                                             *)
(***************************************************************************)

\* std::string::npos.  size_t is unsigned: npos is its largest value, above any
\* position of a string; it is kept as a value apart from the positions.
Npos == -1

SetMin(S) == CHOOSE x \in S : \A y \in S : x <= y

SetMax(S) == CHOOSE x \in S : \A y \in S : y <= x

\* s.find(tok, from)
Find(s, tok, from) ==
    IF from = Npos THEN Npos
    ELSE LET hits == {p \in from..(Len(s) - Len(tok)) :
                          SubSeq(s, p + 1, p + Len(tok)) = tok}
         IN  IF hits = {} THEN Npos ELSE SetMin(hits)

\* s.find_first_of(chars, from)
FindFirstOf(s, chars, from) ==
    IF from = Npos THEN Npos
    ELSE LET hits == {p \in from..(Len(s) - 1) : s[p + 1] \in chars}
         IN  IF hits = {} THEN Npos ELSE SetMin(hits)

\* s.find_first_not_of(chars, from)
FindFirstNotOf(s, chars, from) ==
    IF from = Npos THEN Npos
    ELSE LET hits == {p \in from..(Len(s) - 1) : s[p + 1] \notin chars}
         IN  IF hits = {} THEN Npos ELSE SetMin(hits)

\* a - b in size_t.  The one wrapping case ParseShader has is eol = begin - 1
\* (the line ends right after the token), where the difference is 2^64 - 1,
\* that is npos.
SizeSub(a, b) == IF a >= b THEN a - b ELSE Npos

\* s.substr(pos, count), for pos <= s.size(): count is clamped to the rest.
Substr(s, pos, count) ==
    IF count = Npos \/ pos + count > Len(s)
    THEN SubSeq(s, pos + 1, Len(s))
    ELSE SubSeq(s, pos + 1, pos + count)

(***************************************************************************)
(* Internal::GetShaderTypeFromString and Internal::ParseShader             *)
(***************************************************************************)

CR == "\r"

LF == "\n"

EolChars == {CR, LF}

Token == <<"#", "t", "y", "p", "e">>

StrVertex == <<"v", "e", "r", "t", "e", "x">>

StrFragment == <<"f", "r", "a", "g", "m", "e", "n", "t">>

StrPixel == <<"p", "i", "x", "e", "l">>

StrGeometry == <<"g", "e", "o", "m", "e", "t", "r", "y">>

StrTessControl == <<"t", "e", "s", "s", "C", "o", "n", "t", "r", "o", "l">>

StrTessEvaluation ==
    <<"t", "e", "s", "s", "E", "v", "a", "l", "u", "a", "t", "i", "o", "n">>

StrCompute == <<"c", "o", "m", "p", "u", "t", "e">>

\* the static table `types`
TypeNames ==
    {StrVertex, StrFragment, StrPixel, StrGeometry, StrTessControl,
     StrTessEvaluation, StrCompute}

GetShaderTypeFromStringAnyCase(type) ==
    CASE type \in {StrVertex, <<"V", "e", "r", "t", "e", "x">>} -> "Vertex"
      [] type \in {StrFragment, StrPixel}                       -> "Fragment"
      [] OTHER                                                  -> "None"

GetShaderTypeFromString(type) ==
    CASE type = StrVertex         -> "Vertex"
      [] type = StrFragment       -> "Fragment"
      [] type = StrPixel          -> "Fragment"
      [] type = StrGeometry       -> "Geometry"
      [] type = StrTessControl    -> "TessControl"
      [] type = StrTessEvaluation -> "TessEvaluation"
      [] type = StrCompute        -> "Compute"
      [] OTHER                    -> "None"

\* result[key] = value on a std::map
MapSet(m, key, value) ==
    [k \in DOMAIN m \cup {key} |-> IF k = key THEN value ELSE m[k]]

EmptyMap == [k \in {} |-> <<>>]

\* auto begin = position + token.size() + 1;
MarkerBegin(position) == position + Len(Token) + 1

\* auto nextLinePosition = shaderSource.find_first_not_of("\r\n", eol);
NextLinePositionAfterOneChar(shaderSource, eol) ==
    IF eol + 1 < Len(shaderSource) THEN eol + 1 ELSE Npos

NextLinePosition(shaderSource, eol) == FindFirstNotOf(shaderSource, EolChars, eol)

\* The while loop of ParseShader.  A failed assert ends the parse (and the
\* process) with no mapping.
RECURSIVE ParseLoop(_, _, _)
ParseLoop(shaderSource, position, result) ==
    IF position = Npos THEN [status |-> "ok", map |-> result]
    ELSE
      LET eol   == FindFirstOf(shaderSource, EolChars, position)
          begin == MarkerBegin(position)
      IN
      IF eol = Npos THEN [status |-> "assert_eol", map |-> EmptyMap]
      ELSE
        LET type       == Substr(shaderSource, begin, SizeSub(eol, begin))
            shaderType == GetShaderTypeFromString(type)
        IN
        IF shaderType = "None" THEN [status |-> "assert_type", map |-> EmptyMap]
        ELSE
          LET nextLinePosition == NextLinePosition(shaderSource, eol) IN
          IF nextLinePosition = Npos
          THEN [status |-> "assert_next_line", map |-> EmptyMap]
          ELSE
            LET next == Find(shaderSource, Token, nextLinePosition)
                body == IF next = Npos
                        THEN Substr(shaderSource, nextLinePosition, Npos)
                        ELSE Substr(shaderSource, nextLinePosition,
                                    next - nextLinePosition)
            IN  ParseLoop(shaderSource, next, MapSet(result, shaderType, body))

ParseShader(shaderSource) ==
    ParseLoop(shaderSource, Find(shaderSource, Token, 0), EmptyMap)

(***************************************************************************)
(* The splitter on its own: texts built from pieces, then parsed.          *)
(***************************************************************************)

MaxPieces == 4

Space == " "

MarkerVertex == Token \o <<Space>> \o StrVertex

MarkerFragment == Token \o <<Space>> \o StrFragment

MarkerPixel == Token \o <<Space>> \o StrPixel

MarkerUnknown == Token \o <<Space, "V", "e", "r", "t", "e", "x">>

Pieces ==
    { MarkerVertex \o <<LF>>,
      MarkerFragment \o <<LF>>,
      MarkerPixel \o <<CR, LF>>,
      MarkerUnknown \o <<LF>>,
      MarkerVertex,
      Token,
      <<"A", LF>>,
      <<"B", LF>>,
      <<LF>> }

NotParsed == [status |-> "not_parsed", map |-> EmptyMap]

ExampleText ==
    MarkerVertex \o <<LF, "A", LF>> \o MarkerFragment \o <<LF, "B", LF>>

ExampleMap ==
    [k \in {"Vertex", "Fragment"} |-> IF k = "Vertex" THEN <<"A", LF>> ELSE <<"B", LF>>]

(***************************************************************************)
(* The driver, as far as Shader calls it.  Programs and stage objects      *)
(* share one space of handles; 0 is no object.                             *)
(***************************************************************************)

MaxHandles == 3

Handles == 1..MaxHandles

UniformNames == {"u_ViewProjectionMatrix", "u_Transform"}

\* the GLSL type each uniform is declared with, as the class of glUniform*
\* call that may set it: both are mat4
UniformClass == [n \in UniformNames |-> "m4"]

\* the active uniforms a linked program may come out with, by location
Layouts ==
    { <<>>,
      <<"u_ViewProjectionMatrix">>,
      <<"u_ViewProjectionMatrix", "u_Transform">> }

MaxLogLength == 1

\* what a link attempt may come to: the link status, the active uniforms of
\* a linked program, the length of the diagnostic log of a failed one
LinkOutcomes ==
    {[status |-> TRUE, layout |-> l, logLength |-> 0] : l \in Layouts}
    \cup {[status |-> FALSE, layout |-> <<>>, logLength |-> n] : n \in 0..MaxLogLength}

\* what a Compile(type, source) may meet: whether the driver grants the
\* program and the stage object, the compile status, the length of the log
CompileOutcomes ==
    {[programOk |-> FALSE, shaderOk |-> TRUE, status |-> TRUE, logLength |-> 0],
     [programOk |-> TRUE, shaderOk |-> FALSE, status |-> TRUE, logLength |-> 0],
     [programOk |-> TRUE, shaderOk |-> TRUE, status |-> TRUE, logLength |-> 0]}
    \cup {[programOk |-> TRUE, shaderOk |-> TRUE, status |-> FALSE, logLength |-> n] :
              n \in 0..MaxLogLength}

FreeObj ==
    [kind |-> "free", attached |-> {}, status |-> FALSE, uniforms |-> <<>>,
     vals |-> <<>>, del |-> FALSE, bound |-> FALSE]

IsProgram(g, h) == h \in Handles /\ g.objs[h].kind = "program"

IsShader(g, h) == h \in Handles /\ g.objs[h].kind = "shader"

IsAttached(g, h) == \E p \in Handles : IsProgram(g, p) /\ h \in g.objs[p].attached

\* the handle the driver gives out next: the least free one, 0 when none is
NextFree(g) ==
    LET free == {h \in Handles : g.objs[h].kind = "free"}
    IN  IF free = {} THEN 0 ELSE SetMin(free)

\* glCreateProgram / glCreateShader: the handle returned (0: refused)
CreatedHandle(g, ok) == IF ok THEN NextFree(g) ELSE 0

glCreate(g, kind, h) ==
    IF h = 0 THEN g
    ELSE [g EXCEPT !.objs[h] = [FreeObj EXCEPT !.kind = kind]]

\* glCompileShader, with the compile status the driver arrives at
glCompileShader(g, h, status) ==
    IF IsShader(g, h) THEN [g EXCEPT !.objs[h].status = status] ELSE g

glAttachShader(g, p, h) ==
    IF IsProgram(g, p) /\ IsShader(g, h)
    THEN [g EXCEPT !.objs[p].attached = @ \cup {h}]
    ELSE g

\* a program leaves the driver: its stages are detached, and those flagged
\* for deletion go with it
ReleaseProgram(g, p) ==
    [g EXCEPT !.objs =
        [h \in Handles |->
            IF h = p THEN FreeObj
            ELSE IF h \in g.objs[p].attached /\ g.objs[h].del THEN FreeObj
            ELSE g.objs[h]]]

\* glDeleteProgram: a program in use is only flagged
glDeleteProgram(g, h) ==
    IF ~IsProgram(g, h) THEN g
    ELSE IF g.current = h THEN [g EXCEPT !.objs[h].del = TRUE]
    ELSE ReleaseProgram(g, h)

\* glDeleteShader: an attached stage is only flagged
glDeleteShader(g, h) ==
    IF ~IsShader(g, h) THEN g
    ELSE IF IsAttached(g, h) THEN [g EXCEPT !.objs[h].del = TRUE]
    ELSE [g EXCEPT !.objs[h] = FreeObj]

\* a glDetachShader that leaves the stage attached
glDetachShaderIgnored(g, p, h) == g

glDetachShader(g, p, h) ==
    IF ~(IsProgram(g, p) /\ h \in g.objs[p].attached) THEN g
    ELSE LET g1 == [g EXCEPT !.objs[p].attached = @ \ {h}]
         IN  IF g1.objs[h].del THEN [g1 EXCEPT !.objs[h] = FreeObj] ELSE g1

\* glBindAttribLocation / glBindFragDataLocation: the program keeps the
\* binding for its next link; bound tells that it holds one, of either kind
glBindLocation(g, p, kind) ==
    IF IsProgram(g, p) THEN [g EXCEPT !.objs[p].bound = TRUE] ELSE g

\* glLinkProgram, with the link status and active uniforms the driver arrives at
glLinkProgram(g, h, status, layout) ==
    IF ~IsProgram(g, h) THEN g
    ELSE [g EXCEPT !.objs[h].status = status,
                   !.objs[h].uniforms = IF status THEN layout ELSE <<>>,
                   !.objs[h].vals = IF status THEN [i \in 1..Len(layout) |-> 0] ELSE <<>>]

\* glUseProgram: only 0 or a linked program becomes current; a flagged program
\* is released when it stops being current
glUseProgram(g, h) ==
    IF h # 0 /\ ~(IsProgram(g, h) /\ g.objs[h].status) THEN g
    ELSE LET old == g.current
             g1  == [g EXCEPT !.current = h]
         IN  IF old # 0 /\ old # h /\ g1.objs[old].del
             THEN ReleaseProgram(g1, old)
             ELSE g1

\* glGetUniformLocation: -1 unless h is a linked program with name active
glGetUniformLocation(g, h, name) ==
    IF IsProgram(g, h) /\ g.objs[h].status
       /\ \E i \in 1..Len(g.objs[h].uniforms) : g.objs[h].uniforms[i] = name
    THEN (CHOOSE i \in 1..Len(g.objs[h].uniforms) : g.objs[h].uniforms[i] = name) - 1
    ELSE -1

\* glUniform* of class class: sets the uniform at location of the program in
\* use, when there is one of that class; location -1 is ignored
glUniform(g, location, class, value) ==
    LET p == g.current IN
    IF /\ p # 0
       /\ location >= 0
       /\ location < Len(g.objs[p].uniforms)
       /\ UniformClass[g.objs[p].uniforms[location + 1]] = class
    THEN [g EXCEPT !.objs[p].vals[location + 1] = value]
    ELSE g

\* the handles of the driver objects that exist
LiveHandles(g) == {h \in Handles : g.objs[h].kind # "free"}

(***************************************************************************)
(* Internal::ReadFile over a fixed file system                             *)
(***************************************************************************)

NUL == "NUL"

SingleStageText == MarkerVertex \o <<LF, "A", LF>>

UnknownStageText == MarkerUnknown \o <<LF, "A", LF>>

MixedStageText == MarkerVertex \o <<LF, "A", LF>> \o MarkerUnknown \o <<LF, "B", LF>>

\* the files there are: whether fs::exists, whether the ifstream opens, and
\* the content
FileSystem ==
    [path \in {"basic.glsl", "single.glsl", "plain.glsl", "Vertex.glsl",
               "mixed.glsl", "locked.glsl", "missing.glsl"} |->
        CASE path = "basic.glsl"   -> [exists |-> TRUE, opens |-> TRUE, content |-> ExampleText]
          [] path = "single.glsl"  -> [exists |-> TRUE, opens |-> TRUE, content |-> SingleStageText]
          [] path = "plain.glsl"   -> [exists |-> TRUE, opens |-> TRUE, content |-> <<"A", LF>>]
          [] path = "Vertex.glsl"  -> [exists |-> TRUE, opens |-> TRUE, content |-> UnknownStageText]
          [] path = "mixed.glsl"   -> [exists |-> TRUE, opens |-> TRUE, content |-> MixedStageText]
          [] path = "locked.glsl"  -> [exists |-> TRUE, opens |-> FALSE, content |-> SingleStageText]
          [] path = "missing.glsl" -> [exists |-> FALSE, opens |-> FALSE, content |-> <<>>]]

Paths == DOMAIN FileSystem

\* a file that does not exist reads as the empty string; one that exists but
\* does not open reads as file_size zero bytes (resize, then a read that fails)
ReadFile(filepath) ==
    LET f == FileSystem[filepath] IN
    IF ~f.exists THEN <<>>
    ELSE IF ~f.opens THEN [i \in 1..Len(f.content) |-> NUL]
    ELSE f.content

(***************************************************************************)
(* Shader                                                                  *)
(***************************************************************************)

\* the Shader objects followed
ShaderIds == {"shader"}

MaxLinkRequests == 2

MaxValue == 2

\* the values a uniform, a camera matrix or a transform may hold
Values == 1..MaxValue

\* glm::mat4(1.0f)
Identity == 1

Idle == [s |-> "none"]

NoShader ==
    [state |-> "none", m_Handle |-> 0, m_IsLinked |-> FALSE,
     m_UniformLocations |-> [n \in {} |-> 0], stages |-> {}]

\* how often the driver call named name occurs in the calls cs
RECURSIVE CountCalls(_, _)
CountCalls(cs, name) ==
    IF cs = <<>> THEN 0
    ELSE (IF Head(cs)[1] = name THEN 1 ELSE 0) + CountCalls(Tail(cs), name)

\* Shader::Compile(type, source).  programOk, shaderOk: whether the driver
\* grants the objects; status, logLength: what it reports of the compilation.
Compile(g, m_Handle, type, source, programOk, shaderOk, status, logLength) ==
    LET handle == IF m_Handle = 0 THEN CreatedHandle(g, programOk) ELSE m_Handle
        g1     == IF m_Handle = 0 THEN glCreate(g, "program", handle) ELSE g
        c1     == IF m_Handle = 0 THEN << <<"glCreateProgram", handle>> >> ELSE <<>>
    IN
    IF handle = 0
    THEN [gl |-> g1, m_Handle |-> 0, shaderHandle |-> 0, result |-> "throw",
          what |-> "Unable to create shader program!", calls |-> c1]
    ELSE
      LET shaderHandle == CreatedHandle(g1, shaderOk)
          g2 == glCreate(g1, "shader", shaderHandle)
          c2 == c1 \o << <<"glCreateShader", type, shaderHandle>> >>
      IN
      IF shaderHandle = 0
      THEN [gl |-> g2, m_Handle |-> handle, shaderHandle |-> 0, result |-> "throw",
            what |-> "Error creating shader!", calls |-> c2]
      ELSE
        LET g3 == glCompileShader(g2, shaderHandle, status)
            c3 == c2 \o << <<"glShaderSource", shaderHandle>>,
                           <<"glCompileShader", shaderHandle>> >>
        IN
        IF ~status
        THEN [gl |-> glDeleteShader(g3, shaderHandle), m_Handle |-> handle,
              shaderHandle |-> shaderHandle, result |-> "throw",
              what |-> IF logLength > 0 THEN "log: shader compilation failed!"
                       ELSE "Shader compilation failed!",
              calls |-> c3 \o << <<"glDeleteShader", shaderHandle>> >>]
        ELSE [gl |-> glAttachShader(g3, handle, shaderHandle), m_Handle |-> handle,
              shaderHandle |-> shaderHandle, result |-> "ok", what |-> "",
              calls |-> c3 \o << <<"glAttachShader", handle, shaderHandle>> >>]

\* for (shaderHandle : shaderHandles) { glDetachShader; glDeleteShader; }
RECURSIVE DetachAndDeleteAll(_, _, _)
DetachAndDeleteAll(g, p, hs) ==
    IF hs = {} THEN [gl |-> g, calls |-> <<>>]
    ELSE LET h    == SetMin(hs)
             rest == DetachAndDeleteAll(glDeleteShader(glDetachShader(g, p, h), h),
                                        p, hs \ {h})
         IN  [gl |-> rest.gl,
              calls |-> << <<"glDetachShader", p, h>>, <<"glDeleteShader", h>> >>
                        \o rest.calls]

\* for (shaderHandle : shaderHandles) glDeleteShader(shaderHandle);
RECURSIVE DeleteAll(_, _)
DeleteAll(g, hs) ==
    IF hs = {} THEN [gl |-> g, calls |-> <<>>]
    ELSE LET h    == SetMin(hs)
             rest == DeleteAll(glDeleteShader(g, h), hs \ {h})
         IN  [gl |-> rest.gl, calls |-> << <<"glDeleteShader", h>> >> \o rest.calls]

\* if (logLength > 0): the branch of Link that frees and throws
LinkFailureThrows(logLength) == logLength > 0

\* Shader::Link.  status and logLength are what glGetProgramiv leaves in the
\* two locals: the driver's answer for a program, and whatever the
\* uninitialized locals held when m_Handle names no program.
Link(g, m_Handle, status, layout, logLength) ==
    LET g1 == glLinkProgram(g, m_Handle, status, layout)
        shaderHandles == IF IsProgram(g1, m_Handle) THEN g1.objs[m_Handle].attached ELSE {}
        c1 == << <<"glLinkProgram", m_Handle>> >>
    IN
    IF status
    THEN LET r == DetachAndDeleteAll(g1, m_Handle, shaderHandles) IN
         [gl |-> r.gl, linked |-> TRUE, threw |-> FALSE,
          calls |-> c1 \o << <<"glValidateProgram", m_Handle>> >> \o r.calls]
    ELSE IF LinkFailureThrows(logLength)
    THEN LET r == DeleteAll(glDeleteProgram(g1, m_Handle), shaderHandles) IN
         [gl |-> r.gl, linked |-> FALSE, threw |-> TRUE,
          calls |-> c1 \o << <<"glDeleteProgram", m_Handle>> >> \o r.calls]
    ELSE [gl |-> g1, linked |-> FALSE, threw |-> FALSE, calls |-> c1]

\* if (!shader->m_IsLinked)
NeedsLinkAlways(sh) == TRUE

NeedsLink(sh) == ~sh.m_IsLinked

\* the outcomes a Bind of sh may meet: those of a link attempt when it makes one
LinkOutcomesFor(sh) ==
    IF NeedsLink(sh) THEN LinkOutcomes
    ELSE {[status |-> TRUE, layout |-> <<>>, logLength |-> 0]}

\* Shader::Bind
Bind(g, sh, status, layout, logLength) ==
    IF NeedsLink(sh)
    THEN LET r == Link(g, sh.m_Handle, status, layout, logLength) IN
         IF r.threw
         THEN [gl |-> r.gl, linked |-> sh.m_IsLinked, threw |-> TRUE, calls |-> r.calls]
         ELSE [gl |-> glUseProgram(r.gl, sh.m_Handle),
               linked |-> sh.m_IsLinked \/ r.linked, threw |-> FALSE,
               calls |-> r.calls \o << <<"glUseProgram", sh.m_Handle>> >>]
    ELSE [gl |-> glUseProgram(g, sh.m_Handle), linked |-> sh.m_IsLinked,
          threw |-> FALSE, calls |-> << <<"glUseProgram", sh.m_Handle>> >>]

\* the driver call of Shader::BindAttribLocation and Shader::BindFragDataLocation
LocationCall ==
    [kind \in {"attrib", "fragdata"} |->
        IF kind = "attrib" THEN "glBindAttribLocation" ELSE "glBindFragDataLocation"]

LocationKinds == DOMAIN LocationCall

\* if (!m_IsLinked)
ReachesDriverAlways(sh) == TRUE

ReachesDriver(sh) == ~sh.m_IsLinked

\* Shader::BindAttribLocation / Shader::BindFragDataLocation
BindLocation(g, sh, kind) ==
    IF ReachesDriver(sh)
    THEN [gl |-> glBindLocation(g, sh.m_Handle, kind),
          calls |-> << <<LocationCall[kind], sh.m_Handle>> >>]
    ELSE [gl |-> g, calls |-> <<>>]

\* the glUniform* call each SetUniform overload makes
Overloads == {"bool", "int", "float", "float3", "vec3", "vec4", "mat3", "mat4"}

OverloadClass ==
    [o \in Overloads |->
        CASE o \in {"bool", "int"}    -> "1i"
          [] o = "float"              -> "1f"
          [] o \in {"float3", "vec3"} -> "3f"
          [] o = "vec4"               -> "4f"
          [] o = "mat3"               -> "m3"
          [] o = "mat4"               -> "m4"]

\* the overloads the model calls: the matrix the renderer uploads, and one
\* of another class of glUniform* call
CalledOverloads == {"vec3", "mat4"}

\* return m_UniformLocations[name]: operator[] adds a missing name with 0
CachedLocation(cache, name) ==
    IF name \in DOMAIN cache THEN [cache |-> cache, location |-> cache[name]]
    ELSE [cache |-> MapSet(cache, name, 0), location |-> 0]

\* a GetUniformLocation without the contains test: it asks the driver each time
GetUniformLocationUncached(g, sh, name) ==
    LET location == glGetUniformLocation(g, sh.m_Handle, name) IN
    [cache |-> MapSet(sh.m_UniformLocations, name, IF location >= 0 THEN location ELSE 0),
     location |-> IF location >= 0 THEN location ELSE 0,
     queried |-> TRUE, answer |-> location]

\* Shader::GetUniformLocation: the cache after the call, the location
\* returned, and what the driver answered when it was asked
GetUniformLocation(g, sh, name) ==
    IF name \notin DOMAIN sh.m_UniformLocations
    THEN LET location == glGetUniformLocation(g, sh.m_Handle, name) IN
         IF location >= 0
         THEN [cache |-> MapSet(sh.m_UniformLocations, name, location),
               location |-> location, queried |-> TRUE, answer |-> location]
         ELSE LET r == CachedLocation(sh.m_UniformLocations, name) IN
              [cache |-> r.cache, location |-> r.location, queried |-> TRUE,
               answer |-> location]
    ELSE LET r == CachedLocation(sh.m_UniformLocations, name) IN
         [cache |-> r.cache, location |-> r.location, queried |-> FALSE,
          answer |-> r.location]

\* Shader::SetUniform(name, value), any overload
SetUniform(g, sh, name, overload, value) ==
    LET r == GetUniformLocation(g, sh, name) IN
    [gl |-> glUniform(g, r.location, OverloadClass[overload], value),
     cache |-> r.cache, location |-> r.location, queried |-> r.queried,
     answer |-> r.answer,
     calls |-> (IF r.queried
                THEN << <<"glGetUniformLocation", sh.m_Handle, name>> >>
                ELSE <<>>)
               \o << <<"glUniform", r.location>> >>]

(***************************************************************************)
(* IndexBuffer over the driver's buffer objects                            *)
(***************************************************************************)

MaxBufferHandles == 2

BufferHandles == 1..MaxBufferHandles

\* the IndexBuffer objects followed
BufferIds == {"ib1", "ib2"}

MaxCount == 3

\* the numbers of indices a buffer is created with
Counts == 0..MaxCount

\* BufferUsage
BufferUsages == {"Static", "Dynamic"}

\* a buffer name: free, generated ("name"), or bound once and so an object
\* ("buffer"); the data store is held as its number of indices
FreeBuffer == [kind |-> "free", stored |-> FALSE, size |-> 0, usage |-> "none"]

NoIndexBuffer == [state |-> "none", m_Handle |-> 0, m_Count |-> 0, m_Usage |-> "none"]

\* glGenBuffers(1, &handle): the least free name is written to handle; a
\* driver that generates no name leaves handle as it was
glGenBuffers(g, handle, granted) ==
    LET free == {h \in BufferHandles : g.objs[h].kind = "free"} IN
    IF granted /\ free # {}
    THEN [gl |-> [g EXCEPT !.objs[SetMin(free)].kind = "name"], handle |-> SetMin(free)]
    ELSE [gl |-> g, handle |-> handle]

\* glBindBuffer(GL_ELEMENT_ARRAY_BUFFER, h): 0 clears the binding, a generated
\* name becomes a buffer object at its first binding, any other name is an error
glBindBuffer(g, h) ==
    IF h = 0 THEN [g EXCEPT !.binding = 0]
    ELSE IF h \in BufferHandles /\ g.objs[h].kind # "free"
    THEN [g EXCEPT !.objs[h].kind = "buffer", !.binding = h]
    ELSE g

\* a glBufferData that uploads nothing
glBufferDataDropped(g, count, usage) == g

\* glBufferData(GL_ELEMENT_ARRAY_BUFFER, count * sizeof(IndexType), indices,
\* usage): a new data store for the buffer bound; an error with none bound
glBufferData(g, count, usage) ==
    IF g.binding = 0 THEN g
    ELSE [g EXCEPT !.objs[g.binding].stored = TRUE,
                   !.objs[g.binding].size = count,
                   !.objs[g.binding].usage = usage]

\* glDeleteBuffers(1, &h): 0 and unused names are ignored; a bound buffer
\* leaves the binding at 0
glDeleteBuffers(g, h) ==
    IF h = 0 \/ g.objs[h].kind = "free" THEN g
    ELSE [g EXCEPT !.objs[h] = FreeBuffer,
                   !.binding = IF g.binding = h THEN 0 ELSE g.binding]

\* IndexBuffer::IndexBuffer(indices, count, usage); granted: whether the
\* driver generates a buffer name.  No statement of the constructor throws.
IndexBufferCtor(g, count, usage, granted) ==
    LET gen == glGenBuffers(g, 0, granted) IN
    [gl |-> glBufferData(glBindBuffer(gen.gl, gen.handle), count, usage),
     threw |-> FALSE,
     object |-> [state |-> "alive", m_Handle |-> gen.handle, m_Count |-> count,
                 m_Usage |-> usage],
     calls |-> << <<"glGenBuffers", gen.handle>>,
                  <<"glBindBuffer", gen.handle>>,
                  <<"glBufferData", count>> >>]

InitBuffers ==
    /\ indexBuffers = [b \in BufferIds |-> NoIndexBuffer]
    /\ glBuffers = [objs |-> [h \in BufferHandles |-> FreeBuffer], binding |-> 0]

(***************************************************************************)
(* The operations                                                          *)
(***************************************************************************)

VertexArrays == {"quad"}

InitShaders ==
    /\ running = TRUE
    /\ shaders = [s \in ShaderIds |-> NoShader]
    /\ ctor = Idle
    /\ gl = [objs |-> [h \in Handles |-> FreeObj], current |-> 0]
    /\ s_ViewProjectionMatrix = Identity
    /\ linkRequests = [s \in ShaderIds |-> 0]
    /\ linkFailures = [s \in ShaderIds |-> 0]
    /\ failedLookups = [s \in ShaderIds |-> {}]
    /\ calls = <<>>
    /\ lastOp = [op |-> "none", s |-> "none", result |-> "ok"]

Init ==
    /\ text = <<>>
    /\ nPieces = 0
    /\ parsed = NotParsed
    /\ InitShaders
    /\ InitBuffers

\* Shader::Create(filepath), up to the first Compile(type, source): ReadFile,
\* ParseShader, and the whole of construction when there is no stage.  The
\* Shader is created on a driver that holds no object: a construction that
\* failed and left objects behind is not followed by another.
ShaderCreate(s, filepath) ==
    /\ running
    /\ ctor = Idle
    /\ shaders[s].state = "none"
    /\ LiveHandles(gl) = {}
    /\ LET shaderSource  == ReadFile(filepath)
           shaderSources == ParseShader(shaderSource)
       IN
       IF shaderSources.status # "ok"
       THEN /\ running' = FALSE
            /\ lastOp' = [op |-> "Create", s |-> s, result |-> "abort",
                          filepath |-> filepath, what |-> shaderSources.status]
            /\ UNCHANGED <<shaders, ctor>>
       ELSE IF DOMAIN shaderSources.map = {}
       THEN /\ shaders' = [shaders EXCEPT ![s] = [NoShader EXCEPT !.state = "alive"]]
            /\ lastOp' = [op |-> "Create", s |-> s, result |-> "ok",
                          filepath |-> filepath, what |-> ""]
            /\ UNCHANGED <<running, ctor>>
       ELSE /\ ctor' = [s |-> s, filepath |-> filepath, pending |-> shaderSources.map,
                        m_Handle |-> 0, stages |-> {}]
            /\ lastOp' = [op |-> "Create", s |-> s, result |-> "compiling",
                          filepath |-> filepath, what |-> ""]
            /\ UNCHANGED <<running, shaders>>
    /\ calls' = <<>>
    /\ UNCHANGED <<gl, s_ViewProjectionMatrix, linkRequests, linkFailures,
                   failedLookups>>
    /\ UNCHANGED <<parseVars, bufferVars>>

\* one turn of the loop of Shader::Compile(sources): Compile(type, source).
\* A throw ends construction with no Shader; the last turn completes it.
CompileStage ==
    /\ running
    /\ ctor # Idle
    /\ \E type \in DOMAIN ctor.pending, o \in CompileOutcomes :
         LET r == Compile(gl, ctor.m_Handle, type, ctor.pending[type],
                          o.programOk, o.shaderOk, o.status, o.logLength)
             left   == [t \in DOMAIN ctor.pending \ {type} |-> ctor.pending[t]]
             stages == IF r.shaderHandle = 0 THEN ctor.stages
                       ELSE ctor.stages \cup {r.shaderHandle}
         IN
         /\ gl' = r.gl
         /\ calls' = r.calls
         /\ IF r.result = "throw"
            THEN /\ ctor' = Idle
                 /\ lastOp' = [op |-> "Create", s |-> ctor.s, result |-> "throw",
                               filepath |-> ctor.filepath, what |-> r.what,
                               m_Handle |-> r.m_Handle, stages |-> stages]
                 /\ UNCHANGED shaders
            ELSE IF DOMAIN left = {}
            THEN /\ ctor' = Idle
                 /\ shaders' = [shaders EXCEPT ![ctor.s] =
                        [NoShader EXCEPT !.state = "alive", !.m_Handle = r.m_Handle,
                                         !.stages = stages]]
                 /\ lastOp' = [op |-> "Create", s |-> ctor.s, result |-> "ok",
                               filepath |-> ctor.filepath, what |-> ""]
            ELSE /\ ctor' = [ctor EXCEPT !.pending = left, !.m_Handle = r.m_Handle,
                                         !.stages = stages]
                 /\ lastOp' = [op |-> "Create", s |-> ctor.s, result |-> "compiling",
                               filepath |-> ctor.filepath, what |-> ""]
                 /\ UNCHANGED shaders
    /\ UNCHANGED <<running, s_ViewProjectionMatrix, linkRequests, linkFailures,
                   failedLookups>>
    /\ UNCHANGED <<parseVars, bufferVars>>

\* an operation on the Shader s may start
Callable(s) ==
    /\ running
    /\ ctor = Idle
    /\ shaders[s].state = "alive"

\* a Bind of s stays within the number of link requests the model follows
MayBind(s) == shaders[s].m_IsLinked \/ linkRequests[s] < MaxLinkRequests

\* Shader::Bind(shader)
ShaderBind(s) ==
    /\ Callable(s)
    /\ MayBind(s)
    /\ \E o \in LinkOutcomesFor(shaders[s]) :
         LET r     == Bind(gl, shaders[s], o.status, o.layout, o.logLength)
             tried == CountCalls(r.calls, "glLinkProgram")
         IN
         /\ gl' = r.gl
         /\ shaders' = [shaders EXCEPT ![s].m_IsLinked = r.linked]
         /\ linkRequests' = [linkRequests EXCEPT ![s] = @ + tried]
         /\ linkFailures' = [linkFailures EXCEPT ![s] =
                                IF tried > 0 /\ ~o.status THEN @ + 1 ELSE @]
         /\ calls' = r.calls
         /\ lastOp' = [op |-> "Bind", s |-> s,
                       result |-> IF r.threw THEN "throw" ELSE "ok",
                       linkTried |-> tried > 0,
                       linkStatus |-> tried > 0 /\ o.status]
    /\ UNCHANGED <<running, ctor, s_ViewProjectionMatrix, failedLookups>>
    /\ UNCHANGED <<parseVars, bufferVars>>

\* Shader::Unbind()
ShaderUnbind ==
    /\ running
    /\ ctor = Idle
    /\ gl' = glUseProgram(gl, 0)
    /\ calls' = << <<"glUseProgram", 0>> >>
    /\ lastOp' = [op |-> "Unbind", s |-> "none", result |-> "ok"]
    /\ UNCHANGED <<running, shaders, ctor, s_ViewProjectionMatrix, linkRequests,
                   linkFailures, failedLookups>>
    /\ UNCHANGED <<parseVars, bufferVars>>

\* the name of a lookup r the driver answered with a negative location
FailedName(r, name) == IF r.queried /\ r.answer < 0 THEN {name} ELSE {}

\* shader->SetUniform(name, value), by overload
ShaderSetUniform(s, name, overload, value) ==
    /\ Callable(s)
    /\ LET r == SetUniform(gl, shaders[s], name, overload, value) IN
       /\ gl' = r.gl
       /\ shaders' = [shaders EXCEPT ![s].m_UniformLocations = r.cache]
       /\ calls' = r.calls
       /\ failedLookups' = [failedLookups EXCEPT ![s] = @ \cup FailedName(r, name)]
       /\ lastOp' = [op |-> "SetUniform", s |-> s, result |-> "ok", name |-> name,
                     queried |-> r.queried, answer |-> r.answer]
    /\ UNCHANGED <<running, ctor, s_ViewProjectionMatrix, linkRequests, linkFailures>>
    /\ UNCHANGED <<parseVars, bufferVars>>

\* shader->BindAttribLocation(location, name) / BindFragDataLocation, by kind
ShaderBindLocation(s, kind) ==
    /\ Callable(s)
    /\ LET r == BindLocation(gl, shaders[s], kind) IN
       /\ gl' = r.gl
       /\ calls' = r.calls
    /\ lastOp' = [op |-> "BindLocation", s |-> s, result |-> "ok", kind |-> kind]
    /\ UNCHANGED <<running, shaders, ctor, s_ViewProjectionMatrix, linkRequests,
                   linkFailures, failedLookups>>
    /\ UNCHANGED <<parseVars, bufferVars>>

\* the last Ref<Shader> goes: Shader::~Shader
ShaderDestroy(s) ==
    /\ Callable(s)
    /\ gl' = IF shaders[s].m_Handle = 0 THEN gl
             ELSE glDeleteProgram(gl, shaders[s].m_Handle)
    /\ calls' = IF shaders[s].m_Handle = 0 THEN <<>>
                ELSE << <<"glDeleteProgram", shaders[s].m_Handle>> >>
    /\ shaders' = [shaders EXCEPT ![s].state = "dead"]
    /\ lastOp' = [op |-> "Destroy", s |-> s, result |-> "ok"]
    /\ UNCHANGED <<running, ctor, s_ViewProjectionMatrix, linkRequests, linkFailures,
                   failedLookups>>
    /\ UNCHANGED <<parseVars, bufferVars>>

\* Renderer::BeginScene(camera), camera.GetViewProjectionMatrix() being value
BeginScene(value) ==
    /\ running
    /\ ctor = Idle
    /\ s_ViewProjectionMatrix' = value
    /\ calls' = <<>>
    /\ lastOp' = [op |-> "BeginScene", s |-> "none", result |-> "ok"]
    /\ UNCHANGED <<running, shaders, ctor, gl, linkRequests, linkFailures, failedLookups>>
    /\ UNCHANGED <<parseVars, bufferVars>>

\* an EndScene that puts the matrix back to the identity
EndSceneResets ==
    /\ running
    /\ ctor = Idle
    /\ s_ViewProjectionMatrix' = Identity
    /\ calls' = <<>>
    /\ lastOp' = [op |-> "EndScene", s |-> "none", result |-> "ok"]
    /\ UNCHANGED <<running, shaders, ctor, gl, linkRequests, linkFailures, failedLookups>>
    /\ UNCHANGED <<parseVars, bufferVars>>

\* Renderer::EndScene()
EndScene ==
    /\ running
    /\ ctor = Idle
    /\ calls' = <<>>
    /\ lastOp' = [op |-> "EndScene", s |-> "none", result |-> "ok"]
    /\ UNCHANGED <<running, shaders, ctor, gl, s_ViewProjectionMatrix, linkRequests,
                   linkFailures, failedLookups>>
    /\ UNCHANGED <<parseVars, bufferVars>>

\* Renderer::Submit(shader, vertexArray, transform)
Submit(s, vertexArray, transform) ==
    /\ Callable(s)
    /\ MayBind(s)
    /\ \E o \in LinkOutcomesFor(shaders[s]) :
         LET b     == Bind(gl, shaders[s], o.status, o.layout, o.logLength)
             tried == CountCalls(b.calls, "glLinkProgram")
             sh1   == [shaders[s] EXCEPT !.m_IsLinked = b.linked]
             u1    == SetUniform(b.gl, sh1, "u_ViewProjectionMatrix", "mat4",
                                 s_ViewProjectionMatrix)
             sh2   == [sh1 EXCEPT !.m_UniformLocations = u1.cache]
             u2    == SetUniform(u1.gl, sh2, "u_Transform", "mat4", transform)
             sh3   == [sh2 EXCEPT !.m_UniformLocations = u2.cache]
         IN
         /\ linkRequests' = [linkRequests EXCEPT ![s] = @ + tried]
         /\ linkFailures' = [linkFailures EXCEPT ![s] =
                                IF tried > 0 /\ ~o.status THEN @ + 1 ELSE @]
         /\ IF b.threw
            THEN /\ gl' = b.gl
                 /\ shaders' = [shaders EXCEPT ![s] = sh1]
                 /\ calls' = b.calls
                 /\ UNCHANGED failedLookups
                 /\ lastOp' = [op |-> "Submit", s |-> s, result |-> "throw",
                               vertexArray |-> vertexArray, transform |-> transform]
            ELSE /\ gl' = u2.gl
                 /\ shaders' = [shaders EXCEPT ![s] = sh3]
                 /\ failedLookups' = [failedLookups EXCEPT ![s] =
                        @ \cup FailedName(u1, "u_ViewProjectionMatrix")
                          \cup FailedName(u2, "u_Transform")]
                 /\ calls' = b.calls \o u1.calls \o u2.calls
                             \o << <<"VertexArray::Bind", vertexArray>>,
                                   <<"RenderCommand::DrawIndexed", vertexArray>> >>
                 /\ lastOp' = [op |-> "Submit", s |-> s, result |-> "ok",
                               vertexArray |-> vertexArray, transform |-> transform]
    /\ UNCHANGED <<running, ctor, s_ViewProjectionMatrix>>
    /\ UNCHANGED <<parseVars, bufferVars>>

Next ==
    \/ \E s \in ShaderIds, filepath \in Paths : ShaderCreate(s, filepath)
    \/ CompileStage
    \/ \E s \in ShaderIds : ShaderBind(s)
    \/ ShaderUnbind
    \/ \E s \in ShaderIds, name \in UniformNames, overload \in CalledOverloads,
          value \in Values : ShaderSetUniform(s, name, overload, value)
    \/ \E s \in ShaderIds, kind \in LocationKinds : ShaderBindLocation(s, kind)
    \/ \E s \in ShaderIds : ShaderDestroy(s)
    \/ \E value \in Values : BeginScene(value)
    \/ EndScene
    \/ \E s \in ShaderIds, vertexArray \in VertexArrays, transform \in Values :
          Submit(s, vertexArray, transform)

Spec == Init /\ [][Next]_vars

(***************************************************************************)
(* The splitter on its own, as a specification                             *)
(***************************************************************************)

InitParse ==
    /\ text = <<>>
    /\ nPieces = 0
    /\ parsed = NotParsed
    /\ InitShaders
    /\ InitBuffers

\* the text grows by one piece
AppendPiece ==
    /\ parsed = NotParsed
    /\ nPieces < MaxPieces
    /\ \E piece \in Pieces : text' = text \o piece
    /\ nPieces' = nPieces + 1
    /\ UNCHANGED parsed
    /\ UNCHANGED <<shaderVars, bufferVars>>

\* Internal::ParseShader(text)
Parse ==
    /\ parsed = NotParsed
    /\ parsed' = ParseShader(text)
    /\ UNCHANGED <<text, nPieces>>
    /\ UNCHANGED <<shaderVars, bufferVars>>

NextParse == AppendPiece \/ Parse

SpecParse == InitParse /\ [][NextParse]_vars

(***************************************************************************)
(* IndexBuffer on its own, as a specification                              *)
(***************************************************************************)

\* what the operations on index buffers leave alone
bufferFrame ==
    <<text, nPieces, parsed, running, shaders, ctor, gl, s_ViewProjectionMatrix,
      linkRequests, linkFailures, failedLookups>>

\* IndexBuffer::Create(indices, count, usage)
IndexBufferCreate(b, count, usage, granted) ==
    /\ indexBuffers[b].state = "none"
    /\ LET r == IndexBufferCtor(glBuffers, count, usage, granted) IN
       /\ glBuffers' = r.gl
       /\ indexBuffers' = [indexBuffers EXCEPT ![b] = r.object]
       /\ calls' = r.calls
       /\ lastOp' = [op |-> "IndexBuffer::Create", s |-> b,
                     result |-> IF r.threw THEN "throw" ELSE "ok",
                     count |-> count, granted |-> granted]
    /\ UNCHANGED bufferFrame

\* IndexBuffer::Bind(indexBuffer)
IndexBufferBind(b) ==
    /\ indexBuffers[b].state = "alive"
    /\ glBuffers' = glBindBuffer(glBuffers, indexBuffers[b].m_Handle)
    /\ calls' = << <<"glBindBuffer", indexBuffers[b].m_Handle>> >>
    /\ lastOp' = [op |-> "IndexBuffer::Bind", s |-> b, result |-> "ok"]
    /\ UNCHANGED indexBuffers
    /\ UNCHANGED bufferFrame

\* IndexBuffer::Unbind()
IndexBufferUnbind ==
    /\ glBuffers' = glBindBuffer(glBuffers, 0)
    /\ calls' = << <<"glBindBuffer", 0>> >>
    /\ lastOp' = [op |-> "IndexBuffer::Unbind", s |-> "none", result |-> "ok"]
    /\ UNCHANGED indexBuffers
    /\ UNCHANGED bufferFrame

\* the last Ref<IndexBuffer> goes: IndexBuffer::~IndexBuffer
IndexBufferDestroy(b) ==
    /\ indexBuffers[b].state = "alive"
    /\ glBuffers' = glDeleteBuffers(glBuffers, indexBuffers[b].m_Handle)
    /\ indexBuffers' = [indexBuffers EXCEPT ![b].state = "dead"]
    /\ calls' = << <<"glDeleteBuffers", indexBuffers[b].m_Handle>> >>
    /\ lastOp' = [op |-> "IndexBuffer::Destroy", s |-> b, result |-> "ok"]
    /\ UNCHANGED bufferFrame

NextBuffer ==
    \/ \E b \in BufferIds, count \in Counts, usage \in BufferUsages, granted \in BOOLEAN :
          IndexBufferCreate(b, count, usage, granted)
    \/ \E b \in BufferIds : IndexBufferBind(b)
    \/ IndexBufferUnbind
    \/ \E b \in BufferIds : IndexBufferDestroy(b)

SpecBuffer == Init /\ [][NextBuffer]_vars

(***************************************************************************)
(* What the splitter is to return, stated over the text as a whole: the    *)
(* markers are the occurrences of the token, wherever the loop stands.     *)
(***************************************************************************)

\* the positions of the `#type` tokens of src
Markers(src) ==
    {p \in 0..(Len(src) - Len(Token)) : SubSeq(src, p + 1, p + Len(Token)) = Token}

\* the stage kind each name of the file format stands for (pixel is an alias)
NamedKind ==
    [n \in TypeNames |->
        IF n \in {StrFragment, StrPixel} THEN "Fragment"
        ELSE IF n = StrVertex THEN "Vertex"
        ELSE IF n = StrGeometry THEN "Geometry"
        ELSE IF n = StrTessControl THEN "TessControl"
        ELSE IF n = StrTessEvaluation THEN "TessEvaluation"
        ELSE "Compute"]

\* the marker at p is `#type <name>` followed by a line end
MarkerNames(src, p, n) ==
    /\ p + Len(Token) + 1 + Len(n) < Len(src)
    /\ src[p + Len(Token) + 1] = Space
    /\ SubSeq(src, p + Len(Token) + 2, p + Len(Token) + 1 + Len(n)) = n
    /\ src[p + Len(Token) + 2 + Len(n)] \in EolChars

MarkerKind(src, p) == NamedKind[CHOOSE n \in TypeNames : MarkerNames(src, p, n)]

\* the position of the line end that closes the marker line at p
MarkerLineEnd(src, p) == SetMin({q \in p..(Len(src) - 1) : src[q + 1] \in EolChars})

\* every token heads a marker line, and the last marker line is followed by
\* something else than line ends
ValidText(src) ==
    /\ Markers(src) # {}
    /\ \A p \in Markers(src) : \E n \in TypeNames : MarkerNames(src, p, n)
    /\ \E q \in MarkerLineEnd(src, SetMax(Markers(src)))..(Len(src) - 1) :
         src[q + 1] \notin EolChars

\* where the marker at p has its body end: the next token, or the end of input
BodyEnd(src, p) == SetMin({m \in Markers(src) : m > p} \cup {Len(src)})

\* the first character of the line after the marker line (after LF, CR or CR LF)
VerbatimBodyStart(src, p) ==
    LET e == MarkerLineEnd(src, p) IN
    IF src[e + 1] = CR /\ e + 1 < Len(src) /\ src[e + 2] = LF THEN e + 2 ELSE e + 1

\* the first character after the marker line that is no CR or LF
SkippedBodyStart(src, p) ==
    SetMin({q \in MarkerLineEnd(src, p)..(Len(src) - 1) : src[q + 1] \notin EolChars})

\* the last marker naming kind k
LastMarkerOf(src, k) == SetMax({p \in Markers(src) : MarkerKind(src, p) = k})

\* C7 as stated: the value of each kind is the verbatim text from the line
\* after its marker to the next marker or the end of input.
C7_VerbatimBodies ==
    (parsed # NotParsed /\ ValidText(text)) =>
        /\ parsed.status = "ok"
        /\ DOMAIN parsed.map = {MarkerKind(text, p) : p \in Markers(text)}
        /\ \A k \in DOMAIN parsed.map :
             LET p == LastMarkerOf(text, k) IN
             parsed.map[k] = SubSeq(text, VerbatimBodyStart(text, p) + 1, BodyEnd(text, p))

\* C7, amended: on a valid text (every `#type` token followed by a space, a
\* name of the table and a line end; something else than line ends after the
\* last marker line) ParseShader returns a mapping whose keys are exactly the
\* kinds the markers name, and the value of a kind is the text after the last
\* marker naming it, from the first character after the marker line that is not
\* CR or LF (blank lines right after a marker line are dropped) to the next
\* `#type` token or the end of input.  The example text yields
\* {vertex: "A\n", fragment: "B\n"}, and a text without token the empty mapping.
C7_ParseShaderBodies ==
    parsed # NotParsed =>
        /\ Markers(text) = {} => parsed = [status |-> "ok", map |-> EmptyMap]
        /\ text = ExampleText => parsed = [status |-> "ok", map |-> ExampleMap]
        /\ ValidText(text) =>
             /\ parsed.status = "ok"
             /\ DOMAIN parsed.map = {MarkerKind(text, p) : p \in Markers(text)}
             /\ \A k \in DOMAIN parsed.map :
                  LET p == LastMarkerOf(text, k) IN
                  parsed.map[k] =
                      SubSeq(text, SkippedBodyStart(text, p) + 1, BodyEnd(text, p))

\* the example text of the claim has been parsed into its two bodies
C7_Witness ==
    /\ text = ExampleText
    /\ ValidText(text)
    /\ parsed.status = "ok"
    /\ parsed.map = ExampleMap

(***************************************************************************)
(* The Shader program: link, uniform cache, failures, destruction          *)
(***************************************************************************)

\* C1: for a program whose link succeeds at the first attempt, the linked flag
\* goes to true once and stays, exactly one link request reaches the driver,
\* and no Bind after the linking one issues a link request.
C1_LinkedOnce ==
    /\ [](\A s \in ShaderIds :
            (shaders[s].m_IsLinked /\ linkFailures[s] = 0) => linkRequests[s] = 1)
    /\ [][\A s \in ShaderIds :
            shaders[s].m_IsLinked =>
                /\ shaders'[s].m_IsLinked
                /\ linkRequests'[s] = linkRequests[s]
                /\ CountCalls(calls', "glLinkProgram") = 0]_vars

\* a Bind of a linked program has gone by without a link request
C1_Witness ==
    \E s \in ShaderIds :
        /\ shaders[s].m_IsLinked
        /\ linkRequests[s] = 1
        /\ linkFailures[s] = 0
        /\ lastOp.op = "Bind"
        /\ lastOp.s = s
        /\ ~lastOp.linkTried
        /\ gl.current = shaders[s].m_Handle
        /\ gl.current # 0

\* C2: a lookup the driver answers with a negative location (asked for a
\* program of the driver) leaves the cache without the name and returns the
\* negative location to SetUniform.
C2_FailedLookupNotCached ==
    (/\ lastOp.op = "SetUniform"
     /\ lastOp.queried
     /\ lastOp.answer < 0
     /\ IsProgram(gl, shaders[lastOp.s].m_Handle)) =>
        /\ lastOp.name \notin DOMAIN shaders[lastOp.s].m_UniformLocations
        /\ calls[Len(calls)][2] < 0

\* C3: a SetUniform of a name the driver does not resolve changes the value of
\* no uniform of the driver.
C3_UnresolvedUploadSkipped ==
    [][(lastOp'.op = "SetUniform" /\ lastOp'.queried /\ lastOp'.answer < 0) =>
            \A h \in Handles : gl'.objs[h].vals = gl.objs[h].vals]_vars

\* C4: a Bind whose link attempt reports failure throws, with the program
\* handle and every stage object freed, and linked still false.
C4_LinkFailureIsFatal ==
    \A s \in ShaderIds :
        (/\ lastOp.op = "Bind"
         /\ lastOp.s = s
         /\ lastOp.linkTried
         /\ ~lastOp.linkStatus
         /\ shaders[s].m_Handle # 0) =>
            /\ lastOp.result = "throw"
            /\ ~shaders[s].m_IsLinked
            /\ \A h \in {shaders[s].m_Handle} \cup shaders[s].stages :
                 gl.objs[h].kind = "free"

\* C5: when a stage fails to compile, every stage object allocated so far for
\* the program is freed when the error leaves the constructor.
C5_CompileFailureFreesStages ==
    (/\ lastOp.op = "Create"
     /\ lastOp.result = "throw"
     /\ lastOp.what \in {"Shader compilation failed!", "log: shader compilation failed!"}) =>
        \A h \in lastOp.stages : gl.objs[h].kind = "free"

\* the file at filepath cannot be read
Unreadable(filepath) == ~FileSystem[filepath].exists \/ ~FileSystem[filepath].opens

\* C6: a Create from a file that cannot be read, or from a text without
\* `#type` marker, ends in a fatal error and yields no Shader.
C6_NoSourceIsFatal ==
    (/\ lastOp.op = "Create"
     /\ lastOp.result # "compiling"
     /\ \/ Unreadable(lastOp.filepath)
        \/ Markers(ReadFile(lastOp.filepath)) = {}) =>
        /\ lastOp.result \in {"throw", "abort"}
        /\ shaders[lastOp.s].state = "none"

\* the text has a `#type` line whose stage name is not one of the table
HasUnknownStage(src) ==
    \E p \in Markers(src) :
        \E e \in (p + Len(Token) + 1)..(Len(src) - 1) :
            /\ src[e + 1] \in EolChars
            /\ \A q \in (p + Len(Token) + 1)..(e - 1) : src[q + 1] \notin EolChars
            /\ src[p + Len(Token) + 1] \notin EolChars
            /\ SubSeq(src, p + Len(Token) + 2, e) \notin TypeNames

\* C8: a Create from a text with a `#type` line naming a stage that is not in
\* the table ends in the fatal parse error: no mapping comes back, no Shader
\* is made, and the operation has issued no driver call, so that no program
\* or stage object was allocated.
C8_UnknownStageIsFatal ==
    (lastOp.op = "Create" /\ HasUnknownStage(ReadFile(lastOp.filepath))) =>
        /\ lastOp.result = "abort"
        /\ lastOp.what = "assert_type"
        /\ ~running
        /\ ctor = Idle
        /\ calls = <<>>
        /\ shaders[lastOp.s].state = "none"

\* the text whose second stage is unknown has been refused, nothing allocated
C8_Witness ==
    /\ lastOp.op = "Create"
    /\ lastOp.filepath = "mixed.glsl"
    /\ HasUnknownStage(ReadFile(lastOp.filepath))
    /\ lastOp.result = "abort"
    /\ LiveHandles(gl) = {}

\* C9: a Submit binds the shader, uploads the view-projection matrix of the
\* last BeginScene to u_ViewProjectionMatrix and transform to u_Transform,
\* binds the geometry and issues one indexed draw, in this order.
C9_SubmitUploadsAndDraws ==
    \A s \in ShaderIds :
        (lastOp.op = "Submit" /\ lastOp.s = s /\ lastOp.result = "ok") =>
            LET p == shaders[s].m_Handle
                n == Len(calls)
            IN
            /\ calls[1][1] \in {"glLinkProgram", "glUseProgram"}
            /\ CountCalls(calls, "glUseProgram") = 1
            /\ CountCalls(calls, "glUniform") = 2
            /\ calls[n - 1] = <<"VertexArray::Bind", lastOp.vertexArray>>
            /\ calls[n] = <<"RenderCommand::DrawIndexed", lastOp.vertexArray>>
            /\ CountCalls(calls, "RenderCommand::DrawIndexed") = 1
            /\ IsProgram(gl, p) =>
                 \A i \in 1..Len(gl.objs[p].uniforms) :
                    /\ gl.objs[p].uniforms[i] = "u_ViewProjectionMatrix" =>
                         gl.objs[p].vals[i] = s_ViewProjectionMatrix
                    /\ gl.objs[p].uniforms[i] = "u_Transform" =>
                         gl.objs[p].vals[i] = lastOp.transform

\* C10: the destructor of a Shader that was never bound leaves no driver
\* object of the program live: the program and every stage are freed.
C10_DestroyUnboundFreesAll ==
    \A s \in ShaderIds :
        (/\ lastOp.op = "Destroy"
         /\ lastOp.s = s
         /\ linkRequests[s] = 0) =>
            \A h \in ({shaders[s].m_Handle} \cup shaders[s].stages) \ {0} :
                gl.objs[h].kind = "free"

(***************************************************************************)
(* Allocation refusals, IndexBuffer                                        *)
(***************************************************************************)

\* C11: a Create that the driver refuses the buffer name ends in a fatal
\* error and yields no IndexBuffer (as Shader::Compile does for the program
\* and the stage object).
C11_RefusalIsFatal ==
    (lastOp.op = "IndexBuffer::Create" /\ ~lastOp.granted) =>
        /\ lastOp.result = "throw"
        /\ indexBuffers[lastOp.s].state = "none"

\* the data stores of the driver's buffers
DataStores(g) == [h \in BufferHandles |-> <<g.objs[h].stored, g.objs[h].size>>]

\* C12: an IndexBuffer created with n indices has m_Count n; m_Handle and
\* m_Count never change once assigned; Create issues exactly one glBufferData,
\* Bind and Unbind none, and they change no data store, so that the store of a
\* live buffer holds its n indices; after Unbind (so after Bind then Unbind) the
\* element array binding is 0.
C12_IndexBufferContract ==
    /\ [](lastOp.op = "IndexBuffer::Create" =>
            /\ indexBuffers[lastOp.s].m_Count = lastOp.count
            /\ CountCalls(calls, "glBufferData") = 1)
    /\ [](lastOp.op \in {"IndexBuffer::Bind", "IndexBuffer::Unbind"} =>
            CountCalls(calls, "glBufferData") = 0)
    /\ [](lastOp.op = "IndexBuffer::Unbind" => glBuffers.binding = 0)
    /\ [](\A b \in BufferIds :
            (indexBuffers[b].state = "alive" /\ indexBuffers[b].m_Handle # 0) =>
                /\ glBuffers.objs[indexBuffers[b].m_Handle].stored
                /\ glBuffers.objs[indexBuffers[b].m_Handle].size = indexBuffers[b].m_Count)
    /\ [][/\ \A b \in BufferIds :
               indexBuffers[b].state = "alive" =>
                   /\ indexBuffers'[b].m_Handle = indexBuffers[b].m_Handle
                   /\ indexBuffers'[b].m_Count = indexBuffers[b].m_Count
          /\ lastOp'.op \in {"IndexBuffer::Bind", "IndexBuffer::Unbind"} =>
               DataStores(glBuffers') = DataStores(glBuffers)]_vars

\* a buffer of three indices holds them and has been unbound
C12_Witness ==
    \E b \in BufferIds :
        /\ lastOp.op = "IndexBuffer::Unbind"
        /\ indexBuffers[b].state = "alive"
        /\ indexBuffers[b].m_Count = 3
        /\ indexBuffers[b].m_Handle # 0
        /\ glBuffers.objs[indexBuffers[b].m_Handle].size = 3
        /\ glBuffers.binding = 0

(***************************************************************************)
(* The Shader program: locations, stages, handles                          *)
(***************************************************************************)

\* C13: BindAttribLocation and BindFragDataLocation issue their driver call
\* only on a Shader not yet linked; on a linked one they issue no call and
\* change neither the driver nor the Shader.
C13_LocationOnlyBeforeLink ==
    [][lastOp'.op = "BindLocation" =>
          /\ lastOp'.result = "ok"
          /\ calls' # <<>> => ~shaders[lastOp'.s].m_IsLinked
          /\ shaders[lastOp'.s].m_IsLinked =>
               /\ calls' = <<>>
               /\ gl' = gl
               /\ shaders' = shaders]_vars

\* a location call on a linked program went by without a driver call, after
\* one before the link had reached the driver
C13_Witness ==
    /\ lastOp.op = "BindLocation"
    /\ shaders[lastOp.s].m_IsLinked
    /\ IsProgram(gl, shaders[lastOp.s].m_Handle)
    /\ gl.objs[shaders[lastOp.s].m_Handle].bound
    /\ lastOp.kind = "fragdata"
    /\ calls = <<>>

\* C14: a SetUniform, on a Shader with a program, of a name the driver has
\* answered with a negative location before asks the driver again, and uploads
\* to the location the driver then reports when that is not negative.
C14_FailedLookupRetried ==
    [][\A s \in ShaderIds :
          (/\ lastOp'.op = "SetUniform"
           /\ lastOp'.s = s
           /\ IsProgram(gl, shaders[s].m_Handle)
           /\ lastOp'.name \in failedLookups[s]) =>
              /\ lastOp'.queried
              /\ glGetUniformLocation(gl, shaders[s].m_Handle, lastOp'.name) >= 0 =>
                   calls'[Len(calls')] =
                       <<"glUniform",
                         glGetUniformLocation(gl, shaders[s].m_Handle, lastOp'.name)>>]_vars

\* the stage st is a live stage object attached to the program p
AttachedTo(g, st, p) == IsShader(g, st) /\ IsProgram(g, p) /\ st \in g.objs[p].attached

\* C15: the stages compiled so far stay allocated and attached to the program
\* through construction and until the first Bind; once the Shader is linked,
\* each of its stages is freed and its program has none attached.
C15_StagesLiveUntilLink ==
    /\ ctor # Idle => \A st \in ctor.stages : AttachedTo(gl, st, ctor.m_Handle)
    /\ \A s \in ShaderIds :
         /\ (shaders[s].state = "alive" /\ linkRequests[s] = 0) =>
                \A st \in shaders[s].stages : AttachedTo(gl, st, shaders[s].m_Handle)
         /\ shaders[s].m_IsLinked =>
                /\ \A st \in shaders[s].stages : gl.objs[st].kind = "free"
                /\ IsProgram(gl, shaders[s].m_Handle) =>
                     gl.objs[shaders[s].m_Handle].attached = {}

\* a program of two stages has been linked, and both stages are gone
C15_Witness ==
    \E s \in ShaderIds :
        /\ shaders[s].m_IsLinked
        /\ lastOp.op = "Bind"
        /\ lastOp.linkStatus
        /\ Cardinality(shaders[s].stages) = 2
        /\ IsProgram(gl, shaders[s].m_Handle)
        /\ gl.objs[shaders[s].m_Handle].attached = {}
        /\ \A st \in shaders[s].stages : gl.objs[st].kind = "free"

\* C16: a Bind that issues glUseProgram on the handle of its Shader does so
\* for a linked Shader whose handle is not 0 and names a program of the driver.
C16_BindActivatesLinkedOnly ==
    \A s \in ShaderIds :
        (/\ lastOp.op = "Bind"
         /\ lastOp.s = s
         /\ CountCalls(calls, "glUseProgram") > 0) =>
            /\ shaders[s].m_IsLinked
            /\ shaders[s].m_Handle # 0
            /\ IsProgram(gl, shaders[s].m_Handle)

\* the driver calls that take a program handle as their first argument
ProgramCalls ==
    {"glLinkProgram", "glValidateProgram", "glUseProgram", "glDeleteProgram",
     "glGetUniformLocation", "glBindAttribLocation", "glBindFragDataLocation",
     "glDetachShader", "glAttachShader"}

\* how many of the calls cs are the call named name on the handle h
RECURSIVE CountCallsOn(_, _, _)
CountCallsOn(cs, name, h) ==
    IF cs = <<>> THEN 0
    ELSE (IF Head(cs)[1] = name /\ Head(cs)[2] = h THEN 1 ELSE 0)
         + CountCallsOn(Tail(cs), name, h)

\* C17: no operation passes the program handle of a Shader to glDeleteProgram
\* twice, and once the driver has freed the handle no operation issues a driver
\* call on it.
C17_HandleReleasedOnce ==
    [][\A s \in ShaderIds :
          LET h == shaders[s].m_Handle IN
          /\ CountCallsOn(calls', "glDeleteProgram", h) <= 1
          /\ (h # 0 /\ shaders[s].state = "alive" /\ ~IsProgram(gl, h)) =>
                \A i \in 1..Len(calls') :
                    ~(calls'[i][1] \in ProgramCalls /\ calls'[i][2] = h)]_vars

\* C18: a program handle that is not 0, during construction, when construction
\* fails and in the Shader made, names a program a stage has been attached to.
C18_HandleImpliesStage ==
    /\ (ctor # Idle /\ ctor.m_Handle # 0) => ctor.stages # {}
    /\ (lastOp.op = "Create" /\ lastOp.result = "throw") =>
           (lastOp.m_Handle # 0 => gl.objs[lastOp.m_Handle].attached # {})
    /\ \A s \in ShaderIds :
           (shaders[s].state = "alive" /\ shaders[s].m_Handle # 0) =>
               shaders[s].stages # {}

(***************************************************************************)
(* Renderer's matrix, the uniform cache                                    *)
(***************************************************************************)

\* C19: only BeginScene changes s_ViewProjectionMatrix; Submit and EndScene
\* leave it as it is, and EndScene changes nothing and issues no driver call.
C19_OnlyBeginSceneWrites ==
    [][/\ s_ViewProjectionMatrix' # s_ViewProjectionMatrix => lastOp'.op = "BeginScene"
       /\ lastOp'.op \in {"Submit", "EndScene"} =>
            s_ViewProjectionMatrix' = s_ViewProjectionMatrix
       /\ lastOp'.op = "EndScene" =>
            /\ calls' = <<>>
            /\ UNCHANGED <<running, shaders, ctor, gl, s_ViewProjectionMatrix,
                           linkRequests, linkFailures, failedLookups, indexBuffers,
                           glBuffers, text, nPieces, parsed>>]_vars

\* a Submit and then an EndScene have gone by under a matrix BeginScene set
C19_Witness ==
    /\ lastOp.op = "EndScene"
    /\ calls = <<>>
    /\ s_ViewProjectionMatrix # Identity
    /\ \E s \in ShaderIds : shaders[s].m_IsLinked /\ gl.current = shaders[s].m_Handle

\* C20: a name that is in the cache stays in it with its location through
\* every operation, and a lookup of it (by SetUniform or by Submit) returns
\* that location without a glGetUniformLocation call.
C20_LookupMemoized ==
    [][\A s \in ShaderIds :
          \A n \in DOMAIN shaders[s].m_UniformLocations :
              /\ n \in DOMAIN shaders'[s].m_UniformLocations
              /\ shaders'[s].m_UniformLocations[n] = shaders[s].m_UniformLocations[n]
              /\ \A i \in 1..Len(calls') :
                     calls'[i][1] = "glGetUniformLocation" => calls'[i][3] # n
              /\ (lastOp'.op = "SetUniform" /\ lastOp'.s = s /\ lastOp'.name = n) =>
                     /\ ~lastOp'.queried
                     /\ calls' = << <<"glUniform", shaders[s].m_UniformLocations[n]>> >>]_vars

\* u_Transform, resolved to location 1 by the driver, has been set again from
\* the cache
C20_Witness ==
    \E s \in ShaderIds :
        /\ lastOp.op = "SetUniform"
        /\ lastOp.s = s
        /\ lastOp.name = "u_Transform"
        /\ ~lastOp.queried
        /\ "u_Transform" \in DOMAIN shaders[s].m_UniformLocations
        /\ shaders[s].m_UniformLocations["u_Transform"] = 1
        /\ calls = << <<"glUniform", 1>> >>

====
